---- MODULE Spec2Model ----
(***************************************************************************)
(* State-machine model of the BlazeCraft simulation engine                 *)
(* (src/blazecraft-enhanced/engine.js): unit registry, per-tick action     *)
(* resolver, opponent policy, production queue, fog of war, rewards and    *)
(* the player command surface.                                             *)
(***************************************************************************)
EXTENDS Integers, Sequences, FiniteSets, TLC

VARIABLES
    units,        \* state.units: the registry, a sequence of unit records
    gold,         \* state.resources.gold
    prodQueue,    \* state.prodQueue: sequence of production orders
    fogGrid,      \* state.fogGrid, held as the cells at 2 (visible) and at 1 (explored)
    fogEnabled,   \* state.fogEnabled
    cycle,        \* state.cycle
    rewards,      \* state.rewards, in units of 0.05
    nextUnitId,   \* state.nextUnitId
    selected,     \* state.selected: sequence of unit ids
    group1,       \* state.group1: a saved control group, or <<>> when unset
    demoMode,     \* state.demoMode
    lastOp        \* the handler that ran last and what it observed

vars == <<units, gold, prodQueue, fogGrid, fogEnabled, cycle, rewards,
          nextUnitId, selected, group1, demoMode, lastOp>>

-----------------------------------------------------------------------------
(* CONFIG *)

GRID_W == 16
GRID_H == 16
VISION_RANGE == 4
HarvestTicksShort == 10 - 1
HarvestTicks == 10
\* a cap one above the code's
CarryCapLoose == 4 + 1
\* Math.min(u.carrying + 1, 4)
CarryCap == 4
ReturnAt == 2
GoldPerCarry == 25
AggroRadius == 8
AICadence == 5
PatrolSpan == 2
StartGold == 200

\* the table with a worker that reaches two cells
UNIT_TYPES_LongArm ==
    [ base     |-> [hp |-> 10, attack |-> 0, range |-> 0, cost |-> 200, buildTime |-> 200, isBuilding |-> TRUE],
      barracks |-> [hp |-> 6,  attack |-> 0, range |-> 0, cost |-> 150, buildTime |-> 150, isBuilding |-> TRUE],
      worker   |-> [hp |-> 1,  attack |-> 1, range |-> 2, cost |-> 50,  buildTime |-> 50,  isBuilding |-> FALSE],
      light    |-> [hp |-> 2,  attack |-> 2, range |-> 1, cost |-> 100, buildTime |-> 80,  isBuilding |-> FALSE],
      heavy    |-> [hp |-> 4,  attack |-> 4, range |-> 1, cost |-> 150, buildTime |-> 120, isBuilding |-> FALSE],
      ranged   |-> [hp |-> 1,  attack |-> 2, range |-> 3, cost |-> 120, buildTime |-> 100, isBuilding |-> FALSE] ]

UNIT_TYPES ==
    [ base     |-> [hp |-> 10, attack |-> 0, range |-> 0, cost |-> 200, buildTime |-> 200, isBuilding |-> TRUE],
      barracks |-> [hp |-> 6,  attack |-> 0, range |-> 0, cost |-> 150, buildTime |-> 150, isBuilding |-> TRUE],
      worker   |-> [hp |-> 1,  attack |-> 1, range |-> 1, cost |-> 50,  buildTime |-> 50,  isBuilding |-> FALSE],
      light    |-> [hp |-> 2,  attack |-> 2, range |-> 1, cost |-> 100, buildTime |-> 80,  isBuilding |-> FALSE],
      heavy    |-> [hp |-> 4,  attack |-> 4, range |-> 1, cost |-> 150, buildTime |-> 120, isBuilding |-> FALSE],
      ranged   |-> [hp |-> 1,  attack |-> 2, range |-> 3, cost |-> 120, buildTime |-> 100, isBuilding |-> FALSE] ]

Cells == (0 .. GRID_W - 1) \X (0 .. GRID_H - 1)

InGrid(x, y) == x >= 0 /\ x < GRID_W /\ y >= 0 /\ y < GRID_H

\* state.grid[y][x] after initGrid: 0 free, 1 wall, 2 resource
grid(x, y) ==
    IF y >= 6 /\ y <= 9 /\ x \in {7, 8} THEN 1
    ELSE IF <<x, y>> \in {<<6, 2>>, <<7, 2>>, <<6, 3>>, <<9, 12>>, <<8, 13>>, <<9, 13>>} THEN 2
    ELSE 0

Abs(n) == IF n < 0 THEN -n ELSE n
Sign(n) == IF n > 0 THEN 1 ELSE IF n < 0 THEN -1 ELSE 0
Min(a, b) == IF a < b THEN a ELSE b
Max(a, b) == IF a > b THEN a ELSE b

-----------------------------------------------------------------------------
(* Targets: null, a grid coordinate {x, y}, or a unit id *)

NoTarget == [kind |-> "null", x |-> 0, y |-> 0, id |-> 0]
CellTarget(x, y) == [kind |-> "cell", x |-> x, y |-> y, id |-> 0]
UnitTarget(i) == [kind |-> "unit", x |-> 0, y |-> 0, id |-> i]

-----------------------------------------------------------------------------
(* Hit points.  hp is an IEEE-754 double that only ever changes by         *)
(* hp -= attack * 0.2 (attack in {1, 2, 4}).  A double h is held exactly   *)
(* as the pair (n, e) with h = (n * 2^55 + e) / (5 * 2^55): n counts       *)
(* fifths, e is the accumulated representation and rounding error.  The    *)
(* double nearest to a/5 is (a * 2^55 + 2a) / (5 * 2^55).                  *)

HpOf(h) == [n |-> 5 * h, e |-> 0]

HpDead(hp) == hp.n < 0 \/ (hp.n = 0 /\ hp.e <= 0)       \* hp <= 0

\* hp1 <= hp2
HpLeq(hp1, hp2) == hp1.n < hp2.n \/ (hp1.n = hp2.n /\ hp1.e <= hp2.e)

\* value >= b/5 for b = 5 * 2^k
HpAtLeast(n, e, b) == n > b \/ (n = b /\ e >= 0)

\* log2 of the unit in the last place of (n, e), in units of 2^-55
UlpExp(n, e) ==
    IF HpAtLeast(n, e, 40) THEN 6
    ELSE IF HpAtLeast(n, e, 20) THEN 5
    ELSE IF HpAtLeast(n, e, 10) THEN 4
    ELSE IF HpAtLeast(n, e, 5) THEN 3
    ELSE IF n >= 3 THEN 2
    ELSE IF n >= 2 THEN 1
    ELSE 0

Pow2(j) == CASE j = 0 -> 1 [] j = 1 -> 2 [] j = 2 -> 4 [] j = 3 -> 8
             [] j = 4 -> 16 [] j = 5 -> 32 [] j = 6 -> 64 [] j = 7 -> 128

\* 2^m mod 5
Pow2Mod5(m) == CASE m % 4 = 0 -> 1 [] m % 4 = 1 -> 2 [] m % 4 = 2 -> 4 [] m % 4 = 3 -> 3

\* round-to-nearest-even of the exact difference (n, e) to a double
RoundHp(n, e) ==
    LET j == UlpExp(n, e)
        g == Pow2(j)
        c == Pow2(j + 1) * Pow2Mod5(54 - j)
        q == ((n * c + e) % (10 * g)) \div 5
        r == q % g
        odd == q >= g
        adj == IF 2 * r < g THEN -r
               ELSE IF 2 * r > g THEN g - r
               ELSE IF odd THEN g - r ELSE -r
    IN  [n |-> n, e |-> e + 5 * adj]

\* target.hp -= def.attack * 0.2
HpSub(hp, attack) ==
    LET n1 == hp.n - attack
        e1 == hp.e - 2 * attack
    IN  IF n1 < 0 \/ (n1 = 0 /\ e1 <= 0) THEN [n |-> n1, e |-> e1]
        ELSE RoundHp(n1, e1)

-----------------------------------------------------------------------------
(* Unit registry *)

\* a spawn that numbers the unit by its place in the registry
spawnUnitRecycling(us, nid, type, gx, gy, owner) ==
    Append(us, [id |-> Len(us) + 1, type |-> type, owner |-> owner, gx |-> gx, gy |-> gy,
                hp |-> HpOf(UNIT_TYPES[type].hp), maxHp |-> UNIT_TYPES[type].hp,
                action |-> "noop", target |-> NoTarget,
                progress |-> 0, carrying |-> 0])

spawnUnit(us, nid, type, gx, gy, owner) ==
    Append(us, [id |-> nid, type |-> type, owner |-> owner, gx |-> gx, gy |-> gy,
                hp |-> HpOf(UNIT_TYPES[type].hp), maxHp |-> UNIT_TYPES[type].hp,
                action |-> "noop", target |-> NoTarget,
                progress |-> 0, carrying |-> 0])

Ids(us) == {us[i].id : i \in DOMAIN us}

\* Array.find over a set of matching indices: the first one, 0 if none
First(S) == IF S = {} THEN 0 ELSE CHOOSE i \in S : \A k \in S : i <= k

\* Array.filter: the subsequence of s at the indices K, in order
Filter(s, K) ==
    [i \in 1 .. Cardinality(K) |->
        s[CHOOSE k \in K : Cardinality({m \in K : m <= k}) = i]]

\* isWalkable with the bounds test only
isWalkableOpen(us, x, y) == InGrid(x, y)

\* isWalkable without the occupancy test of line 786
isWalkableTerrainOnly(us, x, y) == InGrid(x, y) /\ grid(x, y) # 1

\* isWalkable without the wall test of line 785
isWalkableThroughWalls(us, x, y) ==
    InGrid(x, y) /\ ~\E i \in DOMAIN us : us[i].gx = x /\ us[i].gy = y

isWalkable(us, x, y) ==
    /\ InGrid(x, y)
    /\ grid(x, y) # 1
    /\ ~\E i \in DOMAIN us : us[i].gx = x /\ us[i].gy = y

-----------------------------------------------------------------------------
(* Action Resolver.  The loop "for (const u of state.units)" walks the     *)
(* array that was the registry when the pass began; a kill rebinds         *)
(* state.units to a filtered copy, so the walk still visits the objects of *)
(* units removed earlier in the pass.  st.objs is that array (objects      *)
(* updated in place), st.alive the ids still in state.units.               *)

\* a kill that forgets to filter the registry
RegistryUnfiltered(st) == st.objs

Registry(st) ==
    IF Cardinality(st.alive) = Len(st.objs) THEN st.objs
    ELSE Filter(st.objs, {i \in DOMAIN st.objs : st.objs[i].id \in st.alive})

\* a step along both axes at once
AxisStepBoth(u) ==
    [x |-> u.gx + Sign(u.target.x - u.gx), y |-> u.gy + Sign(u.target.y - u.gy)]

\* single-axis step of the move and return branches
AxisStep(u) ==
    LET dx == u.target.x - u.gx
        dy == u.target.y - u.gy
    IN  [x |-> u.gx + (IF Abs(dx) > Abs(dy) THEN Sign(dx) ELSE 0),
         y |-> u.gy + (IF Abs(dx) <= Abs(dy) THEN Sign(dy) ELSE 0)]


\* an idle unit that keeps its target
IdleKeepsTarget(u) == [u EXCEPT !.action = "noop"]

\* a stop that also empties the unit's hands
IdleDropsCargo(u) == [u EXCEPT !.action = "noop", !.target = NoTarget, !.carrying = 0]

\* u.action = 'noop'; u.target = null
Idle(u) == [u EXCEPT !.action = "noop", !.target = NoTarget]

\* a deposit that forgets u.carrying = 0
unloadKeepsCargo(u) == Idle(u)

\* the worker after its deposit: carrying = 0, action = 'noop', target = null
unload(u) == [u EXCEPT !.carrying = 0, !.action = "noop", !.target = NoTarget]

\* a kill that lowers the combat reward
killPenalty(c) == c - 4

\* state.rewards.combat += 0.2
killReward(c) == c + 4

\* a deposit whose gold depends on the rewards
goldAfterBonus(st, u) == st.gold + u.carrying * GoldPerCarry + st.rewards.attack

\* a deposit that pays one load whatever the worker carries
goldAfterFlat(st, u) == st.gold + GoldPerCarry

\* state.resources.gold += u.carrying * 25
goldAfter(st, u) == st.gold + u.carrying * GoldPerCarry

moveBranch(st, i) ==
    LET u == st.objs[i]
        s == AxisStep(u)
        m == IF isWalkable(Registry(st), s.x, s.y)
             THEN [u EXCEPT !.gx = s.x, !.gy = s.y] ELSE u
    IN  IF u.gx = u.target.x /\ u.gy = u.target.y
        THEN [st EXCEPT !.objs[i] = Idle(u)]
        ELSE [st EXCEPT !.objs[i] =
                 IF m.gx = m.target.x /\ m.gy = m.target.y THEN Idle(m) ELSE m]

harvestBranch(st, i) ==
    LET u == st.objs[i]
        reg == Registry(st)
        b == First({k \in DOMAIN reg : reg[k].type = "base" /\ reg[k].owner = u.owner})
        c == Min(u.carrying + 1, CarryCap)
    IN  IF u.progress + 1 >= HarvestTicks
        THEN [st EXCEPT !.objs[i] =
                 IF c >= ReturnAt
                 THEN [u EXCEPT !.carrying = c, !.progress = 0, !.action = "return",
                                !.target = IF b # 0 THEN CellTarget(reg[b].gx, reg[b].gy)
                                           ELSE u.target]
                 ELSE [u EXCEPT !.carrying = c, !.progress = 0]]
        ELSE [st EXCEPT !.objs[i].progress = u.progress + 1]

returnBranch(st, i) ==
    LET u == st.objs[i]
        s == AxisStep(u)
    IN  IF Abs(u.target.x - u.gx) + Abs(u.target.y - u.gy) <= 1
        THEN [st EXCEPT !.gold = goldAfter(st, u),
                        !.rewards.resources = st.rewards.resources + u.carrying * 2,
                        !.objs[i] = unload(u)]
        ELSE IF isWalkable(Registry(st), s.x, s.y)
        THEN [st EXCEPT !.objs[i].gx = s.x, !.objs[i].gy = s.y]
        ELSE st

attackBranch(st, i) ==
    LET u == st.objs[i]
        j == First({k \in DOMAIN st.objs :
                      st.objs[k].id \in st.alive /\ st.objs[k].id = u.target.id})
    IN  IF j = 0 \/ HpDead(st.objs[j].hp)
        THEN [st EXCEPT !.objs[i] = Idle(u)]
        ELSE
          LET t == st.objs[j]
              def == UNIT_TYPES[u.type]
              dist == Abs(t.gx - u.gx) + Abs(t.gy - u.gy)
              hp2 == HpSub(t.hp, def.attack)
              nx == u.gx + Sign(t.gx - u.gx)
              ny == u.gy + Sign(t.gy - u.gy)
          IN  IF dist <= def.range
              THEN IF HpDead(hp2)
                   THEN LET hit == [st EXCEPT !.objs[j].hp = hp2,
                                              !.rewards.attack = st.rewards.attack + 1,
                                              !.rewards.combat = killReward(st.rewards.combat),
                                              !.alive = st.alive \ {t.id}]
                        IN  [hit EXCEPT !.objs[i] = Idle(hit.objs[i])]
                   ELSE [st EXCEPT !.objs[j].hp = hp2,
                                   !.rewards.attack = st.rewards.attack + 1]
              ELSE IF isWalkable(Registry(st), nx, ny)
              THEN [st EXCEPT !.objs[i].gx = nx, !.objs[i].gy = ny]
              ELSE st

stepUnit(st, i) ==
    LET u == st.objs[i]
    IN  IF u.action = "move" /\ u.target.kind = "cell" THEN moveBranch(st, i)
        ELSE IF u.action = "harvest" THEN harvestBranch(st, i)
        ELSE IF u.action = "return" /\ u.target.kind = "cell" THEN returnBranch(st, i)
        ELSE IF u.action = "attack" /\ u.target.kind = "unit" THEN attackBranch(st, i)
        ELSE st

RECURSIVE actionsFrom(_, _)
actionsFrom(st, i) ==
    IF i > Len(st.objs) THEN st ELSE actionsFrom(stepUnit(st, i), i + 1)

\* the whole pass: [units, gold, rewards] afterwards
processActions(us, g, rw) ==
    LET st == actionsFrom([objs |-> us, alive |-> Ids(us), gold |-> g, rewards |-> rw], 1)
    IN  [units |-> Registry(st), gold |-> st.gold, rewards |-> st.rewards]

-----------------------------------------------------------------------------
(* Opponent Policy *)

Manhattan(a, b) == Abs(a.gx - b.gx) + Abs(a.gy - b.gy)

\* index of the first faction-1 unit of the registry, however far it is
NearestFirst(us, u) == First({i \in DOMAIN us : us[i].owner = 1})

\* index of the nearest unit of either faction
NearestAnyOwner(us, u) ==
    First({i \in DOMAIN us : \A k \in DOMAIN us : Manhattan(us[i], u) <= Manhattan(us[k], u)})

\* index of the nearest faction-1 unit (first minimum in registry order), 0 if none
Nearest(us, u) ==
    First({i \in DOMAIN us : us[i].owner = 1 /\
              \A k \in DOMAIN us : us[k].owner = 1 => Manhattan(us[i], u) <= Manhattan(us[k], u)})

\* the policy without the test of the owner
AIEligibleAnyOwner(u) == u.action = "noop" /\ ~UNIT_TYPES[u.type].isBuilding

AIEligible(u) == u.owner = 2 /\ u.action = "noop" /\ ~UNIT_TYPES[u.type].isBuilding

\* the units for which processAI draws Math.random(): eligible, nobody within reach
PatrolCandidates(us, cyc) ==
    IF cyc % AICadence # 0 THEN {}
    ELSE {us[i].id : i \in {k \in DOMAIN us :
              /\ AIEligible(us[k])
              /\ LET n == Nearest(us, us[k])
                 IN  n = 0 \/ Manhattan(us[n], us[k]) > AggroRadius}}

\* the outcomes of the draws of one unit: go is Math.random() < 0.1,
\* ox and oy are Math.floor(Math.random() * 5) - 2
NoPatrol == [go |-> FALSE, ox |-> 0, oy |-> 0]
AllDraws == {NoPatrol} \cup
            {[go |-> TRUE, ox |-> a, oy |-> b] : a \in -PatrolSpan .. PatrolSpan,
                                                  b \in -PatrolSpan .. PatrolSpan}

aiUnit(us, u, draw) ==
    LET n == Nearest(us, u)
    IN  IF ~AIEligible(u) THEN u
        ELSE IF n # 0 /\ Manhattan(us[n], u) <= AggroRadius
        THEN [u EXCEPT !.action = "attack", !.target = UnitTarget(us[n].id)]
        ELSE IF draw[u.id].go
        THEN [u EXCEPT !.action = "move",
                       !.target = CellTarget(Max(0, Min(GRID_W - 1, u.gx + draw[u.id].ox)),
                                             Max(0, Min(GRID_H - 1, u.gy + draw[u.id].oy)))]
        ELSE u

processAI(us, cyc, draw) ==
    IF cyc % AICadence # 0 THEN us
    ELSE [i \in DOMAIN us |-> aiUnit(us, us[i], draw)]

-----------------------------------------------------------------------------
(* Production Queue *)

\* the candidate list with its first two entries exchanged
SpotsWestFirst(pq) == << <<pq.gx - 1, pq.gy>>, <<pq.gx + 1, pq.gy>>,
                         <<pq.gx, pq.gy + 1>>, <<pq.gx, pq.gy - 1>>,
                         <<pq.gx + 1, pq.gy + 1>>, <<pq.gx - 1, pq.gy - 1>> >>

\* a search that leaves out the last offset (-1, -1)
SpotsFive(pq) == << <<pq.gx + 1, pq.gy>>, <<pq.gx - 1, pq.gy>>,
                    <<pq.gx, pq.gy + 1>>, <<pq.gx, pq.gy - 1>>,
                    <<pq.gx + 1, pq.gy + 1>> >>

Spots(pq) == << <<pq.gx + 1, pq.gy>>, <<pq.gx - 1, pq.gy>>,
                <<pq.gx, pq.gy + 1>>, <<pq.gx, pq.gy - 1>>,
                <<pq.gx + 1, pq.gy + 1>>, <<pq.gx - 1, pq.gy - 1>> >>

\* spots.find(([x, y]) => isWalkable(x, y)): index into Spots, 0 if none
FindSpot(us, pq) ==
    LET sp == Spots(pq)
    IN  First({k \in DOMAIN sp : isWalkable(us, sp[k][1], sp[k][2])})

RemoveAt(q, i) == SubSeq(q, 1, i - 1) \o SubSeq(q, i + 1, Len(q))

\* one iteration of the loop body on prodQueue[i]
productionStep(st, i) ==
    LET pq == [st.prodQueue[i] EXCEPT !.progress = @ + 1]
        k == FindSpot(st.units, pq)
        sp == Spots(pq)
    IN  IF pq.progress >= pq.total
        THEN IF k # 0
             THEN [st EXCEPT
                     !.units = spawnUnit(st.units, st.nextUnitId, pq.unitType,
                                         sp[k][1], sp[k][2], 1),
                     !.nextUnitId = st.nextUnitId + 1,
                     !.rewards.workers = IF pq.unitType = "worker" THEN @ + 2 ELSE @,
                     !.rewards.combat = IF pq.unitType = "worker" THEN @ ELSE @ + 2,
                     !.prodQueue = RemoveAt(st.prodQueue, i)]
             ELSE [st EXCEPT !.prodQueue = RemoveAt(st.prodQueue, i)]
        ELSE [st EXCEPT !.prodQueue[i] = pq]

RECURSIVE productionFrom(_, _)
productionFrom(st, i) ==
    IF i < 1 THEN st ELSE productionFrom(productionStep(st, i), i - 1)

processProduction(us, q, nid, rw) ==
    productionFrom([units |-> us, prodQueue |-> q, nextUnitId |-> nid, rewards |-> rw],
                   Len(q))

-----------------------------------------------------------------------------
(* Fog of war *)

\* the reveal loops without the test dx * dx + dy * dy > range * range
VisionSquare == (-VISION_RANGE .. VISION_RANGE) \X (-VISION_RANGE .. VISION_RANGE)

\* the (dx, dy) the reveal loops do not skip
VisionDisk ==
    {d \in (-VISION_RANGE .. VISION_RANGE) \X (-VISION_RANGE .. VISION_RANGE) :
        d[1] * d[1] + d[2] * d[2] <= VISION_RANGE * VISION_RANGE}

\* the cells the reveal loops set to 2 for a unit standing on cell p
DiskAt ==
    [p \in Cells |-> {c \in {<<p[1] + d[1], p[2] + d[2]>> : d \in VisionDisk} :
                         InGrid(c[1], c[2])}]

\* the reveal loops run for the units of both factions
RevealedAnyOwner(us) ==
    UNION {DiskAt[<<us[i].gx, us[i].gy>>] : i \in DOMAIN us}

\* the cells the reveal loops set to 2
Revealed(us) ==
    UNION {DiskAt[<<us[i].gx, us[i].gy>>] : i \in {k \in DOMAIN us : us[k].owner = 1}}

\* state.fogGrid[y][x] of a fog grid held as [vis, exp]
FogAt(fog, c) == IF c \in fog.vis THEN 2 ELSE IF c \in fog.exp THEN 1 ELSE 0

\* initFog: every cell 0
NoFog == [vis |-> {}, exp |-> {}]

\* a recompute that resets the cells it does not reveal
updateFogForgetting(fog, enabled, us) ==
    IF ~enabled THEN [vis |-> Cells, exp |-> {}]
    ELSE [vis |-> Revealed(us), exp |-> {}]

\* a recompute without the branch for disabled fog
updateFogNoBypass(fog, enabled, us) ==
    [vis |-> Revealed(us), exp |-> (fog.exp \cup fog.vis) \ Revealed(us)]

updateFog(fog, enabled, us) ==
    IF ~enabled THEN [vis |-> Cells, exp |-> {}]
    ELSE LET rev == Revealed(us)
         IN  [vis |-> rev, exp |-> (fog.exp \cup fog.vis) \ rev]

-----------------------------------------------------------------------------
(* Initial state: init() = initGrid, initUnits, initFog, updateFog *)

InitUnits ==
    LET u1 == spawnUnit(<<>>, 1, "base", 1, 1, 1)
        u2 == spawnUnit(u1, 2, "worker", 2, 1, 1)
        u3 == spawnUnit(u2, 3, "worker", 1, 2, 1)
        u4 == spawnUnit(u3, 4, "base", 14, 14, 2)
        u5 == spawnUnit(u4, 5, "worker", 13, 14, 2)
    IN  spawnUnit(u5, 6, "worker", 14, 13, 2)

InitFog == updateFog(NoFog, TRUE, InitUnits)

InitRewards == [winLoss |-> 0, resources |-> 0, workers |-> 0,
                buildings |-> 0, attack |-> 0, combat |-> 0]

\* what the handler that ran last saw when it started (mid: the registry that
\* processProduction was handed in a tick)
Observed(op, arg, mid) ==
    [op |-> op, arg |-> arg, units |-> units, gold |-> gold, prodQueue |-> prodQueue,
     fogGrid |-> fogGrid, fogEnabled |-> fogEnabled, nextUnitId |-> nextUnitId,
     rewards |-> rewards, mid |-> mid]

Init ==
    /\ units = InitUnits
    /\ gold = StartGold
    /\ prodQueue = <<>>
    /\ fogGrid = InitFog
    /\ fogEnabled = TRUE
    /\ cycle = 0
    /\ rewards = InitRewards
    /\ nextUnitId = 7
    /\ selected = <<>>
    /\ group1 = [def |-> FALSE, ids |-> <<>>]
    /\ demoMode = TRUE
    /\ lastOp = [op |-> "init", arg |-> <<>>, units |-> InitUnits, gold |-> StartGold,
                 prodQueue |-> <<>>, fogGrid |-> InitFog, fogEnabled |-> TRUE,
                 nextUnitId |-> 7, rewards |-> InitRewards, mid |-> InitUnits]

-----------------------------------------------------------------------------
(* The tick *)

\* the rest of gameTick once processActions has returned pa; draw holds the
\* outcomes of the Math.random() calls of processAI
gameTick(pa, draw) ==
    \E ai \in {processAI(pa.units, cycle + 1, draw)} :
    \E pp \in {processProduction(ai, prodQueue, nextUnitId, pa.rewards)} :
        /\ cycle' = cycle + 1
        /\ units' = pp.units
        /\ gold' = pa.gold
        /\ prodQueue' = pp.prodQueue
        /\ nextUnitId' = pp.nextUnitId
        /\ rewards' = pp.rewards
        /\ fogGrid' = updateFog(fogGrid, fogEnabled, pp.units)
        /\ lastOp' = Observed("gameTick", draw, ai)
        /\ UNCHANGED <<demoMode, fogEnabled, selected, group1>>

\* a tick whose random draws come from D
GameTick(D) ==
    \E pa \in {processActions(units, gold, rewards)} :
    \E draw \in [PatrolCandidates(pa.units, cycle + 1) -> D] :
        gameTick(pa, draw)

-----------------------------------------------------------------------------
(* Player commands *)

SelIds == {selected[i] : i \in DOMAIN selected}

\* a click that finds units of either faction
clickedAnyOwner(gx, gy) ==
    First({k \in DOMAIN units : units[k].gx = gx /\ units[k].gy = gy})

\* state.units.find(u => u.gx === gx && u.gy === gy && u.owner === 1)
clicked(gx, gy) ==
    First({k \in DOMAIN units :
             units[k].gx = gx /\ units[k].gy = gy /\ units[k].owner = 1})

\* left button, no drag: select the faction-1 unit on the clicked cell
selectClick(gx, gy) ==
    LET i == clicked(gx, gy)
    IN  /\ selected' = IF i # 0 THEN <<units[i].id>> ELSE <<>>
        /\ lastOp' = Observed("select", <<gx, gy>>, units)
        /\ UNCHANGED <<demoMode, units, gold, prodQueue, fogGrid, fogEnabled, cycle, rewards,
                       nextUnitId, group1>>

IdsOf(us) == [i \in DOMAIN us |-> us[i].id]

\* left button, drag: select the faction-1 units whose cell lies in the box
selectBox(x1, y1, x2, y2) ==
    /\ selected' = IdsOf(Filter(units, {k \in DOMAIN units :
                        /\ units[k].owner = 1
                        /\ units[k].gx >= x1 /\ units[k].gx <= x2
                        /\ units[k].gy >= y1 /\ units[k].gy <= y2}))
    /\ lastOp' = Observed("select", <<x1, y1, x2, y2>>, units)
    /\ UNCHANGED <<demoMode, units, gold, prodQueue, fogGrid, fogEnabled, cycle, rewards,
                   nextUnitId, group1>>

\* right button on cell (gx, gy): attack, harvest or move order for the selection
ordered(u, gx, gy) ==
    LET e == First({k \in DOMAIN units :
                      units[k].gx = gx /\ units[k].gy = gy /\ units[k].owner # 1})
    IN  IF e # 0
        THEN [u EXCEPT !.action = "attack", !.target = UnitTarget(units[e].id)]
        ELSE IF grid(gx, gy) = 2 /\ u.type = "worker"
        THEN [u EXCEPT !.action = "harvest", !.target = CellTarget(gx, gy), !.progress = 0]
        ELSE [u EXCEPT !.action = "move", !.target = CellTarget(gx, gy)]

rightClick(gx, gy) ==
    /\ units' = IF InGrid(gx, gy)
                THEN [i \in DOMAIN units |->
                        IF units[i].id \in SelIds THEN ordered(units[i], gx, gy) ELSE units[i]]
                ELSE units
    /\ lastOp' = Observed("rightClick", <<gx, gy>>, units)
    /\ UNCHANGED <<demoMode, gold, prodQueue, fogGrid, fogEnabled, cycle, rewards, nextUnitId,
                   selected, group1>>

\* executeCommand('stop')
stopCommand ==
    /\ units' = [i \in DOMAIN units |->
                    IF units[i].id \in SelIds THEN Idle(units[i]) ELSE units[i]]
    /\ lastOp' = Observed("stop", <<>>, units)
    /\ UNCHANGED <<demoMode, gold, prodQueue, fogGrid, fogEnabled, cycle, rewards, nextUnitId,
                   selected, group1>>

\* the resource cell executeCommand('harvest') picks: nearest, first in row-major scan
ScanBefore(a, b) == a[2] < b[2] \/ (a[2] = b[2] /\ a[1] < b[1])
CellDist(c, u) == Abs(c[1] - u.gx) + Abs(c[2] - u.gy)
Resources == {c \in Cells : grid(c[1], c[2]) = 2}
NearestResource(u) ==
    CHOOSE c \in Resources : \A d \in Resources :
        CellDist(c, u) < CellDist(d, u) \/ (CellDist(c, u) = CellDist(d, u) /\ ~ScanBefore(d, c))

\* executeCommand('harvest')
harvestCommand ==
    /\ units' = [i \in DOMAIN units |->
                    IF units[i].id \in SelIds /\ units[i].type = "worker"
                    THEN LET c == NearestResource(units[i])
                         IN  [units[i] EXCEPT !.action = "move", !.target = CellTarget(c[1], c[2])]
                    ELSE units[i]]
    /\ lastOp' = Observed("harvest", <<>>, units)
    /\ UNCHANGED <<demoMode, gold, prodQueue, fogGrid, fogEnabled, cycle, rewards, nextUnitId,
                   selected, group1>>

\* an enqueue that leaves the gold alone
debitNothing(g, type) == g

\* state.resources.gold -= def.cost
debit(g, type) == g - UNIT_TYPES[type].cost

\* the order pushed on state.prodQueue
newOrder(type, producer) ==
    [unitType |-> type, gx |-> producer.gx, gy |-> producer.gy, progress |-> 0,
     total |-> UNIT_TYPES[type].buildTime]

\* an enqueue without the affordability test
enqueueUnchecked(g, q, us, type) ==
    LET p == First({k \in DOMAIN us : us[k].owner = 1 /\ us[k].type = "base"})
    IN  IF p # 0
        THEN [gold |-> debit(g, type), prodQueue |-> Append(q, newOrder(type, us[p]))]
        ELSE [gold |-> g, prodQueue |-> q]

\* an enqueue that accepts every request made with a positive pool
enqueueOnCredit(g, q, us, type) ==
    LET p == First({k \in DOMAIN us : us[k].owner = 1 /\ us[k].type = "base"})
    IN  IF g > 0 /\ p # 0
        THEN [gold |-> debit(g, type), prodQueue |-> Append(q, newOrder(type, us[p]))]
        ELSE [gold |-> g, prodQueue |-> q]

\* produceUnit as a function of the gold, the queue and the registry
enqueue(g, q, us, type) ==
    LET def == UNIT_TYPES[type]
        p == First({k \in DOMAIN us : us[k].owner = 1 /\ us[k].type = "base"})
    IN  IF g >= def.cost /\ p # 0
        THEN [gold |-> debit(g, type), prodQueue |-> Append(q, newOrder(type, us[p]))]
        ELSE [gold |-> g, prodQueue |-> q]

produceUnit(type) ==
    /\ gold' = enqueue(gold, prodQueue, units, type).gold
    /\ prodQueue' = enqueue(gold, prodQueue, units, type).prodQueue
    /\ lastOp' = Observed("produceUnit", <<type>>, units)
    /\ UNCHANGED <<demoMode, units, fogGrid, fogEnabled, cycle, rewards, nextUnitId,
                   selected, group1>>

toggleFog ==
    /\ fogEnabled' = ~fogEnabled
    /\ fogGrid' = updateFog(fogGrid, ~fogEnabled, units)
    /\ lastOp' = Observed("toggleFog", <<>>, units)
    /\ UNCHANGED <<demoMode, units, gold, prodQueue, cycle, rewards, nextUnitId, selected, group1>>

\* toggleDemo; startDemo sets up one more interval, whose callback is demoTick
toggleDemo ==
    /\ demoMode' = ~demoMode
    /\ lastOp' = Observed("toggleDemo", <<>>, units)
    /\ UNCHANGED <<units, gold, prodQueue, fogGrid, fogEnabled, cycle, rewards,
                   nextUnitId, selected, group1>>

\* the first Resource cell of the row-major scan of the grid
FirstResource == CHOOSE c \in Resources : \A d \in Resources : ~ScanBefore(d, c)

\* "Enemy produces too": a faction-2 unit on the first walkable of the four
\* cells around the faction-2 base
demoSpawn(us, nid, type) ==
    LET b == First({k \in DOMAIN us : us[k].owner = 2 /\ us[k].type = "base"})
        sp == << <<us[b].gx + 1, us[b].gy>>, <<us[b].gx - 1, us[b].gy>>,
                 <<us[b].gx, us[b].gy + 1>>, <<us[b].gx, us[b].gy - 1>> >>
        k == First({j \in DOMAIN sp : isWalkable(us, sp[j][1], sp[j][2])})
    IN  IF type # "none" /\ b # 0 /\ k # 0
        THEN [units |-> spawnUnit(us, nid, type, sp[k][1], sp[k][2], 2),
              nextUnitId |-> nid + 1]
        ELSE [units |-> us, nextUnitId |-> nid]

\* the idle mobile faction-1 units the demo picks from
p1Mobile(us) ==
    {k \in DOMAIN us : /\ us[k].owner = 1 /\ ~UNIT_TYPES[us[k].type].isBuilding
                       /\ us[k].action = "noop"}

\* "auto-select and move player units": the unit with id pick, if it is in
\* p1Mobile, is sent to the first Resource cell (a worker, when toHarvest) or
\* against the first mobile faction-2 unit
demoOrder(us, pick, toHarvest) ==
    LET e == First({k \in DOMAIN us :
                      us[k].owner = 2 /\ ~UNIT_TYPES[us[k].type].isBuilding})
    IN  [i \in DOMAIN us |->
            IF i \in p1Mobile(us) /\ us[i].id = pick
            THEN IF us[i].type = "worker" /\ toHarvest
                 THEN [us[i] EXCEPT !.action = "move",
                                    !.target = CellTarget(FirstResource[1], FirstResource[2])]
                 ELSE IF e # 0
                 THEN [us[i] EXCEPT !.action = "attack", !.target = UnitTarget(us[e].id)]
                 ELSE us[i]
            ELSE us[i]]

\* "Workers at resources auto-harvest"
demoAutoHarvest(us) ==
    [i \in DOMAIN us |->
        IF /\ us[i].owner = 1 /\ us[i].type = "worker"
           /\ us[i].action = "move" /\ us[i].target.kind # "null"
           /\ us[i].gx = us[i].target.x /\ us[i].gy = us[i].target.y
           /\ grid(us[i].gx, us[i].gy) = 2
        THEN [us[i] EXCEPT !.action = "harvest", !.progress = 0]
        ELSE us[i]]

\* the interval callback of startDemo while demoMode is set.  prod, spawn,
\* pick and toHarvest hold the outcomes of its Math.random() calls: the type
\* to produce and the type the opponent gets ("none": the draw said no), the
\* id of the unit picked (0: none) and whether a picked worker is sent to harvest
demoTick(prod, spawn, pick, toHarvest) ==
    \E pr \in {IF prod # "none" /\ gold >= 50 /\ gold >= UNIT_TYPES[prod].cost
               THEN enqueue(gold, prodQueue, units, prod)
               ELSE [gold |-> gold, prodQueue |-> prodQueue]} :
    \E sp \in {demoSpawn(units, nextUnitId, spawn)} :
        /\ demoMode
        /\ units' = demoAutoHarvest(demoOrder(sp.units, pick, toHarvest))
        /\ nextUnitId' = sp.nextUnitId
        /\ prodQueue' = pr.prodQueue
        /\ gold' = pr.gold + 5
        /\ lastOp' = Observed("demo", <<prod, spawn, pick, toHarvest>>, units)
        /\ UNCHANGED <<fogGrid, fogEnabled, cycle, rewards, selected, group1, demoMode>>

\* onKeyDown: ctrl+1 saves the selection, 1 recalls it, escape clears it
saveGroup ==
    /\ group1' = [def |-> TRUE, ids |-> selected]
    /\ lastOp' = Observed("saveGroup", <<>>, units)
    /\ UNCHANGED <<demoMode, units, gold, prodQueue, fogGrid, fogEnabled, cycle, rewards,
                   nextUnitId, selected>>

recallGroup ==
    /\ selected' = IF group1.def THEN group1.ids ELSE selected
    /\ lastOp' = Observed("recallGroup", <<>>, units)
    /\ UNCHANGED <<demoMode, units, gold, prodQueue, fogGrid, fogEnabled, cycle, rewards,
                   nextUnitId, group1>>

clearSelection ==
    /\ selected' = <<>>
    /\ lastOp' = Observed("escape", <<>>, units)
    /\ UNCHANGED <<demoMode, units, gold, prodQueue, fogGrid, fogEnabled, cycle, rewards,
                   nextUnitId, group1>>

-----------------------------------------------------------------------------
(* Specification Spec: a march across the map and the fight that follows.  *)
(* The player gives orders while cycle is in OrderCycles; the opponent's   *)
(* random patrol draws are non-trivial on the decision ticks PatrolCycles.  *)

MaxCycle == 36
PatrolCycles == {5}
EngageCycles == {21}
OrderCycles == {0} \cup EngageCycles
MarchCells == {<<13, 9>>, <<2, 2>>}
PatrolDraws == {NoPatrol, [go |-> TRUE, ox |-> -2, oy |-> -2]}

\* the demo callback runs every 1500 ms, a tick every 50 ms: demo steps come
\* after a tick, at the cycles DemoCycles, with the draws DemoDraws
DemoCycles == {30, 36}
DemoDraws == {<<"none", "none", 0, FALSE>>, <<"light", "heavy", 2, TRUE>>,
              <<"none", "worker", 3, FALSE>>}

AfterTick == lastOp.op = "gameTick"

DemoStep(cycles) ==
    /\ cycle \in cycles /\ AfterTick
    /\ \E d \in DemoDraws : demoTick(d[1], d[2], d[3], d[4])

Draws(cyc) == IF cyc \in PatrolCycles THEN PatrolDraws ELSE {NoPatrol}

\* the cells of the units of the given owners (mobile units only unless b)
UnitCells(owners, b) ==
    {<<units[i].gx, units[i].gy>> :
        i \in {k \in DOMAIN units : /\ units[k].owner \in owners
                                    /\ (b \/ ~UNIT_TYPES[units[k].type].isBuilding)}}

Tick == cycle < MaxCycle /\ GameTick(Draws(cycle + 1))

SelectOne == cycle \in OrderCycles /\ \E c \in UnitCells({1}, FALSE) : selectClick(c[1], c[2])

March == cycle = 0 /\ selected # <<>> /\ \E c \in MarchCells : rightClick(c[1], c[2])

Engage == cycle \in EngageCycles /\ selected # <<>>
          /\ \E c \in UnitCells({2}, TRUE) : rightClick(c[1], c[2])

Demo == DemoStep(DemoCycles)

Next == Tick \/ SelectOne \/ March \/ Engage \/ Demo

Spec == Init /\ [][Next]_vars

-----------------------------------------------------------------------------
(* Specification SpecProd: the economy around the base.  At cycle 0 the    *)
(* player queues workers and sends the two workers to harvest or to a cell *)
(* next to the base; when the harvest has been deposited (RequestCycles)   *)
(* the player queues again.  The opponent is too far away to matter and    *)
(* its patrol draws all come out as "no patrol".  One demo step comes late *)
(* in the run (ProdDemoCycles).                                            *)

ProdMaxCycle == 102
RequestCycles == {22}
WorkCells == {<<6, 2>>, <<2, 2>>}
ProdDemoCycles == {98}

ProdTick == cycle < ProdMaxCycle /\ GameTick({NoPatrol})

ProdSelect == cycle = 0 /\ \E c \in UnitCells({1}, FALSE) : selectClick(c[1], c[2])

ProdOrder == cycle = 0 /\ selected # <<>> /\ \E c \in WorkCells : rightClick(c[1], c[2])

ProdFirst == cycle = 0 /\ produceUnit("worker")

ProdLater == cycle \in RequestCycles /\ \E t \in {"worker", "light"} : produceUnit(t)

ProdDemo == DemoStep(ProdDemoCycles)

NextProd == ProdTick \/ ProdSelect \/ ProdOrder \/ ProdFirst \/ ProdLater \/ ProdDemo

SpecProd == Init /\ [][NextProd]_vars

-----------------------------------------------------------------------------
(* Specification SpecFog: fog of war under movement, death and toggling.   *)
(* At cycle 0 the player may send workers across the map, where the        *)
(* opponent's workers kill them; the fog is toggled at ToggleCycles and a  *)
(* demo step may run at FogDemoCycles.                                     *)

FogMaxCycle == 30
ToggleCycles == {2, 25, 27}
ScoutCells == {<<13, 9>>}
FogDemoCycles == {28}

\* the patrol draws of this specification: also an offset that leaves the grid
FogPatrolDraws == PatrolDraws \cup {[go |-> TRUE, ox |-> 2, oy |-> 2]}

FogTick ==
    cycle < FogMaxCycle /\
    GameTick(IF cycle + 1 \in PatrolCycles THEN FogPatrolDraws ELSE {NoPatrol})

FogSelect == cycle = 0 /\ \E c \in UnitCells({1}, FALSE) : selectClick(c[1], c[2])

FogScout == cycle = 0 /\ selected # <<>> /\ \E c \in ScoutCells : rightClick(c[1], c[2])

FogToggle == cycle \in ToggleCycles /\ toggleFog

FogDemo == DemoStep(FogDemoCycles)

NextFog == FogTick \/ FogSelect \/ FogScout \/ FogToggle \/ FogDemo

SpecFog == Init /\ [][NextFog]_vars

-----------------------------------------------------------------------------
(* Specification SpecCmd: the command surface.  Before the first tick the  *)
(* player clicks and drags to select, saves the control group and gives    *)
(* orders; a worker sent across the map is killed there, so that the       *)
(* commands given later (LateCycles: recall, orders, stop, harvest,        *)
(* produce) may name an id that has left the registry.                     *)

CmdMaxCycle == 33
SelectCycles == {0}
LateCycles == {30}
ClickIds == {3, 5}
OrderCells == {<<13, 9>>, <<13, 14>>}

CmdTick == cycle < CmdMaxCycle /\ GameTick({NoPatrol})

CmdClick ==
    /\ cycle \in SelectCycles
    /\ \E i \in DOMAIN units : /\ units[i].id \in ClickIds
                               /\ selectClick(units[i].gx, units[i].gy)

CmdBox == cycle \in SelectCycles /\ selectBox(0, 0, GRID_W - 1, GRID_H - 1)

CmdSave == cycle \in SelectCycles /\ (saveGroup \/ clearSelection)

CmdRecall == cycle \in LateCycles /\ recallGroup

CmdOrder ==
    /\ cycle \in SelectCycles \cup LateCycles
    /\ \E c \in OrderCells : rightClick(c[1], c[2])

CmdStop == cycle \in LateCycles /\ (stopCommand \/ harvestCommand)

CmdProduce == cycle \in LateCycles /\ produceUnit("heavy")

NextCmd ==
    CmdTick \/ CmdClick \/ CmdBox \/ CmdSave \/ CmdRecall \/ CmdOrder \/ CmdStop
        \/ CmdProduce

SpecCmd == Init /\ [][NextCmd]_vars

-----------------------------------------------------------------------------
(* Specification SpecCarry: a worker whose harvest order is given again    *)
(* each time it turns to return (HarvestCycles), before it can deposit.    *)
(* Before the first tick the worker may instead be sent a few cells away   *)
(* from the base (WalkCells), from where it walks back with its load.      *)

CarryMaxCycle == 52
HarvestCycles == {0, 20, 30, 40}
CarryCells == {<<6, 2>>}
WalkCells == {<<5, 1>>}
HaltCycles == {20}
HaltCells == {<<5, 1>>, <<14, 14>>}

CarryTick == cycle < CarryMaxCycle /\ GameTick({NoPatrol})

CarrySelect == cycle = 0 /\ \E c \in UnitCells({1}, FALSE) : selectClick(c[1], c[2])

CarryOrder ==
    /\ cycle \in HarvestCycles /\ selected # <<>>
    /\ \E c \in CarryCells \cup (IF cycle = 0 THEN WalkCells ELSE {}) :
          rightClick(c[1], c[2])

\* after the tick in which the worker has loaded, the player may stop it or
\* send it to a free cell or at the opponent's base (HaltCells)
CarryHalt ==
    /\ cycle \in HaltCycles /\ selected # <<>> /\ AfterTick
    /\ (stopCommand \/ \E c \in HaltCells : rightClick(c[1], c[2]))

NextCarry == CarryTick \/ CarrySelect \/ CarryOrder \/ CarryHalt

SpecCarry == Init /\ [][NextCarry]_vars

-----------------------------------------------------------------------------
(* Specification SpecSiege: the loss of the base.  The player switches the  *)
(* demo off, sends workers across the map, calls the selection home when    *)
(* the opponent's workers have caught up with it, and later gives a harvest *)
(* order and queues a worker while the opponent is at the base.             *)

SiegeMaxCycle == 120
SiegeCells == {<<12, 2>>, <<6, 13>>}
RetreatCycles == {30}
HomeCells == {<<1, 2>>}
SiegeHarvestCycles == {80, 85, 90}
SiegeProduceCycles == {55}

SiegeQuiet == cycle = 0 /\ demoMode /\ toggleDemo

SiegeTick == cycle < SiegeMaxCycle /\ ~demoMode /\ GameTick({NoPatrol})

SiegeSelect ==
    /\ cycle \in {0} \cup SiegeHarvestCycles /\ ~demoMode
    /\ \E c \in UnitCells({1}, FALSE) : selectClick(c[1], c[2])

SiegeMarch ==
    /\ cycle = 0 /\ lastOp.op = "select"
    /\ \E c \in SiegeCells : rightClick(c[1], c[2])

SiegeRetreat ==
    /\ cycle \in RetreatCycles /\ AfterTick /\ selected # <<>>
    /\ \E c \in HomeCells : rightClick(c[1], c[2])

SiegeHarvest ==
    /\ cycle \in SiegeHarvestCycles /\ lastOp.op = "select"
    /\ \E c \in CarryCells : rightClick(c[1], c[2])

SiegeProduce == cycle \in SiegeProduceCycles /\ AfterTick /\ produceUnit("worker")

NextSiege ==
    SiegeQuiet \/ SiegeTick \/ SiegeSelect \/ SiegeMarch \/ SiegeRetreat
        \/ SiegeHarvest \/ SiegeProduce

SpecSiege == Init /\ [][NextSiege]_vars

-----------------------------------------------------------------------------
(* Observations shared by the properties below *)

\* the unit with this id in a registry (the id is known to be there)
UnitOf(us, id) == us[CHOOSE i \in DOMAIN us : us[i].id = id]

\* ids in the registry both before and after the last handler
Survivors == Ids(units) \cap Ids(lastOp.units)

Occupied(us, x, y) == \E i \in DOMAIN us : us[i].gx = x /\ us[i].gy = y

-----------------------------------------------------------------------------
(* C1: in every state (the tick boundaries and the states after each player *)
(* command) no two units of the registry stand on the same grid cell.       *)
C1_NoSharedCell ==
    \A i, j \in DOMAIN units :
        i # j => ~(units[i].gx = units[j].gx /\ units[i].gy = units[j].gy)

\* a tick in which a moving unit was refused its step because another unit
\* stands on the cell it steps to, and in which a produced unit was placed
C1_Witness ==
    /\ AfterTick
    /\ \E id \in Survivors :
          LET u == UnitOf(units, id)
              v == UnitOf(lastOp.units, id)
              s == AxisStep(v)
          IN  /\ v.action = "move" /\ u.action = "move"
              /\ u.gx = v.gx /\ u.gy = v.gy
              /\ Occupied(units, s.x, s.y)
    /\ nextUnitId > lastOp.nextUnitId

-----------------------------------------------------------------------------
(* C2: every unit of the registry has 0 < hp <= maxHp in every state; a    *)
(* unit whose hp an attack brought to <= 0 is gone from the registry when  *)
(* the tick ends, so no unit with hp <= 0 is ever observable.              *)
C2_HpInRange ==
    \A i \in DOMAIN units :
        /\ ~HpDead(units[i].hp)
        /\ HpLeq(units[i].hp, HpOf(units[i].maxHp))
        /\ units[i].maxHp = UNIT_TYPES[units[i].type].hp

\* a tick that removed a unit while another unit stays damaged in the registry
C2_Witness ==
    /\ AfterTick
    /\ Ids(lastOp.units) \ Ids(units) # {}
    /\ \E i \in DOMAIN units : units[i].hp # HpOf(units[i].maxHp)

-----------------------------------------------------------------------------
(* Observations of the Production Queue pass of the last tick.  The pass   *)
(* was handed the registry lastOp.mid and the queue lastOp.prodQueue and   *)
(* walks the queue from its last order to its first.                       *)

Offsets == << <<1, 0>>, <<-1, 0>>, <<0, 1>>, <<0, -1>>, <<1, 1>>, <<-1, -1>> >>

Candidate(o, k) == <<o.gx + Offsets[k][1], o.gy + Offsets[k][2]>>

\* the candidates around order o that are in bounds, not a wall and unoccupied in us
FreeCandidates(us, o) ==
    {k \in DOMAIN Offsets :
        LET c == Candidate(o, k)
        IN  /\ c[1] >= 0 /\ c[1] < 16 /\ c[2] >= 0 /\ c[2] < 16
            /\ grid(c[1], c[2]) # 1
            /\ ~Occupied(us, c[1], c[2])}

\* the orders whose progress reaches their build-time in the tick that starts with q
Completing(q) == {i \in DOMAIN q : q[i].progress + 1 >= q[i].total}

SameOrigin(q, K) == \A i, j \in K : q[i].gx = q[j].gx /\ q[i].gy = q[j].gy

\* the ids the production pass of the last tick added
Produced == Ids(units) \ Ids(lastOp.mid)

-----------------------------------------------------------------------------
(* C3: an order that reaches its build-time while no candidate cell is     *)
(* free stays in the queue (at full progress, to be retried): a tick       *)
(* removes no more orders from the queue than it adds units.               *)
C3_NoOrderLost ==
    AfterTick => Len(lastOp.prodQueue) - Len(prodQueue) <= Cardinality(Produced)

-----------------------------------------------------------------------------
(* C4: produceUnit(type) with gold >= cost and a faction-1 base in the     *)
(* registry takes exactly the cost from the gold and appends exactly one   *)
(* order [type, origin = the base's cell, progress 0, total = build-time]; *)
(* a tick in which no worker is returning leaves the gold as it is, also   *)
(* when it completes orders.                                               *)
C4_DebitAtEnqueue ==
    /\ lastOp.op = "produceUnit" =>
          LET type == lastOp.arg[1]
              bases == {i \in DOMAIN lastOp.units :
                          lastOp.units[i].owner = 1 /\ lastOp.units[i].type = "base"}
          IN  (lastOp.gold >= UNIT_TYPES[type].cost /\ bases # {}) =>
                 /\ gold = lastOp.gold - UNIT_TYPES[type].cost
                 /\ Len(prodQueue) = Len(lastOp.prodQueue) + 1
                 /\ SubSeq(prodQueue, 1, Len(lastOp.prodQueue)) = lastOp.prodQueue
                 /\ LET o == prodQueue[Len(prodQueue)]
                        b == lastOp.units[First(bases)]
                    IN  /\ o.unitType = type /\ o.progress = 0
                        /\ o.total = UNIT_TYPES[type].buildTime
                        /\ o.gx = b.gx /\ o.gy = b.gy
    /\ (AfterTick /\ \A i \in DOMAIN lastOp.units : lastOp.units[i].action # "return")
          => gold = lastOp.gold

\* a tick that completed an order paid for earlier, with the gold untouched
C4_Witness ==
    /\ AfterTick
    /\ Produced # {}
    /\ gold = lastOp.gold
    /\ gold < 200

-----------------------------------------------------------------------------
(* C5: orders that do not reach their build-time in a tick stay queued     *)
(* with progress + 1.  For the order the pass handles first (the last of   *)
(* the queue), on the tick its progress reaches its build-time: if some    *)
(* candidate cell is free in the registry at that moment, a faction-1 unit *)
(* of its type is added on the first free candidate; if none is free (and  *)
(* the other completing orders share its origin) no unit is added.         *)
C5_FirstFreeCell ==
    AfterTick =>
        LET q == lastOp.prodQueue
            n == Len(q)
        IN  /\ \A i \in DOMAIN q \ Completing(q) :
                  \E j \in DOMAIN prodQueue :
                      prodQueue[j] = [q[i] EXCEPT !.progress = q[i].progress + 1]
            /\ (n > 0 /\ n \in Completing(q)) =>
                  LET free == FreeCandidates(lastOp.mid, q[n])
                  IN  IF free # {}
                      THEN LET c == Candidate(q[n], First(free))
                           IN  \E i \in DOMAIN units :
                                  /\ units[i].id = lastOp.nextUnitId
                                  /\ units[i].id \notin Ids(lastOp.mid)
                                  /\ units[i].type = q[n].unitType
                                  /\ units[i].owner = 1
                                  /\ units[i].gx = c[1] /\ units[i].gy = c[2]
                      ELSE SameOrigin(q, Completing(q)) => Produced = {}
            /\ (Completing(q) # {} /\ SameOrigin(q, Completing(q))) =>
                  LET free == FreeCandidates(lastOp.mid, q[First(Completing(q))])
                      m == Min(Cardinality(Completing(q)), Cardinality(free))
                  IN  /\ Cardinality(Produced) = m
                      /\ \A i \in DOMAIN units : units[i].id \in Produced =>
                            \E k \in free :
                                /\ Candidate(q[First(Completing(q))], k) = <<units[i].gx, units[i].gy>>
                                /\ Cardinality({j \in free : j < k}) < m

\* an order completes while its first candidate cell is occupied and a later one is free
C5_Witness ==
    /\ AfterTick
    /\ LET q == lastOp.prodQueue
       IN  /\ Len(q) > 0 /\ Len(q) \in Completing(q)
           /\ FreeCandidates(lastOp.mid, q[Len(q)]) # {}
           /\ 1 \notin FreeCandidates(lastOp.mid, q[Len(q)])
           /\ q[Len(q)].unitType = "light"

-----------------------------------------------------------------------------
(* C6: when two or more orders of one origin reach their build-time in the *)
(* same tick and exactly one candidate cell is free, exactly one unit is   *)
(* added in that tick.                                                     *)
C6_OneCellOneUnit ==
    AfterTick =>
        LET q == lastOp.prodQueue
            K == Completing(q)
        IN  (/\ Cardinality(K) >= 2
             /\ SameOrigin(q, K)
             /\ Cardinality(FreeCandidates(lastOp.mid, q[First(K)])) = 1)
            => Cardinality(Produced) = 1

C6_Witness ==
    /\ AfterTick
    /\ LET q == lastOp.prodQueue
           K == Completing(q)
       IN  /\ Cardinality(K) = 2
           /\ SameOrigin(q, K)
           /\ Cardinality(FreeCandidates(lastOp.mid, q[First(K)])) = 1
    /\ Cardinality(Produced) = 1

-----------------------------------------------------------------------------
(* Observations of the fog recompute that closed the last tick or toggle.  *)

FogRecomputed == lastOp.op \in {"gameTick", "toggleFog"}

\* some faction-1 unit of the registry stands within the vision radius of cell c
InSight(c) ==
    \E i \in DOMAIN units :
        /\ units[i].owner = 1
        /\ (units[i].gx - c[1]) * (units[i].gx - c[1])
             + (units[i].gy - c[2]) * (units[i].gy - c[2]) <= 4 * 4

\* the cells that were Hidden before the recompute and are Visible after it
Unveiled == {c \in Cells : FogAt(lastOp.fogGrid, c) = 0 /\ FogAt(fogGrid, c) = 2}

-----------------------------------------------------------------------------
(* C7, as stated: over ticks and toggle-fog commands a cell goes from      *)
(* Hidden to Visible only in a recompute in which a faction-1 unit is      *)
(* within squared distance 16 of it.                                       *)
C7_AsStated == FogRecomputed => \A c \in Unveiled : InSight(c)

(* C7, amended: in a recompute that runs with fog enabled a cell goes from *)
(* Hidden to Visible only if a faction-1 unit is within squared distance   *)
(* 16 of it; a recompute that runs with fog disabled makes every cell      *)
(* Visible, whatever the units' positions.                                 *)
C7_UnveiledInSight ==
    FogRecomputed =>
        IF fogEnabled THEN \A c \in Unveiled : InSight(c)
        ELSE \A c \in Cells : FogAt(fogGrid, c) = 2

\* a tick with fog enabled unveils cells around a unit that has left its base
C7_Witness ==
    /\ AfterTick /\ fogEnabled
    /\ Unveiled # {}
    /\ \E c \in Cells : FogAt(fogGrid, c) = 0

-----------------------------------------------------------------------------
(* C8: a cell that is Explored or Visible is never Hidden after a tick or  *)
(* a toggle-fog command, also when the unit that saw it has moved on or    *)
(* has been killed.                                                        *)
C8_NeverHiddenAgain ==
    \A c \in Cells : FogAt(lastOp.fogGrid, c) # 0 => FogAt(fogGrid, c) # 0

\* a faction-1 unit is killed far from its base and the cells it saw turn Explored
C8_Witness ==
    /\ AfterTick /\ fogEnabled /\ lastOp.fogEnabled
    /\ \E i \in DOMAIN lastOp.units :
          /\ lastOp.units[i].owner = 1
          /\ lastOp.units[i].id \notin Ids(units)
    /\ \E c \in Cells :
          FogAt(lastOp.fogGrid, c) = 2 /\ FogAt(fogGrid, c) = 1 /\ ~InSight(c)

-----------------------------------------------------------------------------
(* Observations of the harvest and return branches of the last tick.       *)

\* unit u is one step or less from its return target, where the return branch deposits
Deposits(u) ==
    /\ u.action = "return" /\ u.target.kind # "null"
    /\ Abs(u.target.x - u.gx) + Abs(u.target.y - u.gy) <= 1

-----------------------------------------------------------------------------
(* C9: a worker whose action is harvest at the start of a tick carries at  *)
(* least as much after it; a returning worker that deposits in a tick      *)
(* carries exactly 0 after it; no player command changes a carried count.  *)
C9_CarriedCount ==
    /\ AfterTick => \A id \in Survivors :
          LET pre == UnitOf(lastOp.units, id)
              post == UnitOf(units, id)
          IN  /\ pre.action = "harvest" => post.carrying >= pre.carrying
              /\ Deposits(pre) => post.carrying = 0
    /\ ~AfterTick => \A id \in Survivors :
          UnitOf(units, id).carrying = UnitOf(lastOp.units, id).carrying

\* a worker that carried 2 deposits them
C9_Witness ==
    /\ AfterTick
    /\ \E id \in Survivors :
          /\ Deposits(UnitOf(lastOp.units, id))
          /\ UnitOf(lastOp.units, id).carrying = 2
          /\ UnitOf(units, id).carrying = 0
    /\ gold = lastOp.gold + 50

-----------------------------------------------------------------------------
(* C10: harvest orders are given before the first tick only, with progress *)
(* 0 and carried 0.  A worker still in harvest at the start of tick n      *)
(* (n <= 20) has, after it, carried 0 until tick 9, carried 1 and progress *)
(* 0 after tick 10, carried 1 until tick 19, and after tick 20 carried 2   *)
(* and action return with the cell of its owner's base as target.          *)
C10_HarvestSchedule ==
    (AfterTick /\ cycle <= 20) => \A id \in Survivors :
        LET pre == UnitOf(lastOp.units, id)
            post == UnitOf(units, id)
            bases == {i \in DOMAIN lastOp.units :
                        lastOp.units[i].type = "base" /\ lastOp.units[i].owner = pre.owner}
        IN  pre.action = "harvest" =>
               /\ post.carrying = cycle \div 10
               /\ post.progress = cycle % 10
               /\ post.action = IF cycle = 20 THEN "return" ELSE "harvest"
               /\ (cycle = 20 /\ bases # {}) =>
                     /\ post.target.kind = "cell"
                     /\ post.target.x = lastOp.units[First(bases)].gx
                     /\ post.target.y = lastOp.units[First(bases)].gy

\* the twentieth tick of a worker that has harvested since the start
C10_Witness ==
    /\ AfterTick /\ cycle = 20
    /\ \E id \in Survivors :
          /\ UnitOf(lastOp.units, id).action = "harvest"
          /\ UnitOf(lastOp.units, id).progress = 9
          /\ UnitOf(lastOp.units, id).carrying = 1
          /\ UnitOf(units, id).carrying = 2
          /\ UnitOf(units, id).action = "return"
          /\ UnitOf(units, id).target = CellTarget(1, 1)

-----------------------------------------------------------------------------
(* C11: a target is removed on the first tick at which its hit points      *)
(* less the damage dealt so far, k * (attack * 0.2), are <= 0.  The n of   *)
(* an hp counts its fifths exactly (5 * h less the attack values of the    *)
(* hits taken), so every unit still in the registry has n >= 1.            *)
C11_RemovedOnTime ==
    AfterTick => \A i \in DOMAIN units : units[i].hp.n >= 1

-----------------------------------------------------------------------------
(* C19: harvesting requires standing on a Resource cell: in a tick a       *)
(* unit's harvest progress or carried count increases only if the unit     *)
(* stands on a Resource cell.                                              *)
C19_OnlyOnResource ==
    AfterTick => \A id \in Survivors :
        LET pre == UnitOf(lastOp.units, id)
            post == UnitOf(units, id)
        IN  (post.progress > pre.progress \/ post.carrying > pre.carrying)
                => grid(pre.gx, pre.gy) = 2

-----------------------------------------------------------------------------
(* C15: none of the six reward accumulators is lower after a tick, a       *)
(* player command or a demo step than it was before.                       *)
RewardNames == {"winLoss", "resources", "workers", "buildings", "attack", "combat"}

C15_RewardsNeverDecrease ==
    \A k \in RewardNames : rewards[k] >= lastOp.rewards[k]

\* a tick with a hit that kills: the attack and the combat rewards both grow
C15_Witness ==
    /\ AfterTick
    /\ rewards.attack > lastOp.rewards.attack
    /\ rewards.combat > lastOp.rewards.combat
    /\ Ids(lastOp.units) \ Ids(units) # {}

-----------------------------------------------------------------------------
(* C16: the rewards do not feed back.  The tick just taken, run again from *)
(* the same state with other values in the reward accumulators and the     *)
(* same random draws, gives the same units, gold, production queue, next   *)
(* id and fog; handlers other than the tick leave the rewards alone.       *)
OtherRewards(rw) == {[k \in RewardNames |-> rw[k] + 3], [k \in RewardNames |-> 0]}

C16_RewardsDoNotFeedBack ==
    IF AfterTick
    THEN \A rw \in OtherRewards(lastOp.rewards) :
         \A pa \in {processActions(lastOp.units, lastOp.gold, rw)} :
         \A ai \in {processAI(pa.units, cycle, lastOp.arg)} :
         \A pp \in {processProduction(ai, lastOp.prodQueue, lastOp.nextUnitId, pa.rewards)} :
            /\ pp.units = units
            /\ pa.gold = gold
            /\ pp.prodQueue = prodQueue
            /\ pp.nextUnitId = nextUnitId
            /\ updateFog(lastOp.fogGrid, lastOp.fogEnabled, pp.units) = fogGrid
    ELSE rewards = lastOp.rewards

\* a tick that deposits gold and so raises the resources reward
C16_Witness ==
    /\ AfterTick
    /\ rewards.resources > lastOp.rewards.resources
    /\ gold > lastOp.gold

-----------------------------------------------------------------------------
(* C17: in every state a unit is idle (noop) exactly when it holds no      *)
(* target: idle units hold none, and units whose action is move, harvest,  *)
(* return or attack hold one.                                              *)
C17_TargetIffBusy ==
    \A i \in DOMAIN units :
        /\ units[i].action \in {"noop", "move", "harvest", "return", "attack"}
        /\ units[i].action = "noop" <=> units[i].target.kind = "null"
        /\ units[i].action \in {"move", "harvest", "return"} => units[i].target.kind = "cell"
        /\ units[i].action = "attack" => units[i].target.kind = "unit"

\* an attacker whose target was removed in the tick is idle and holds no target
C17_Witness ==
    /\ AfterTick
    /\ \E id \in Survivors :
          /\ UnitOf(lastOp.units, id).action = "attack"
          /\ UnitOf(lastOp.units, id).target.id \notin Ids(units)
          /\ UnitOf(units, id).action = "noop"
          /\ UnitOf(units, id).target = NoTarget

-----------------------------------------------------------------------------
(* Observations of the player's commands.                                  *)

\* the handlers behind issue-move, issue-attack, issue-harvest and issue-stop
UnitCommands == {"rightClick", "stop", "harvest"}

\* the handlers of the player: unit commands, selection and control groups
PlayerCommands == UnitCommands \cup {"select", "saveGroup", "recallGroup", "escape"}

\* the ids the selection and the control group name
NamedIds == SelIds \cup {group1.ids[i] : i \in DOMAIN group1.ids}

-----------------------------------------------------------------------------
(* C13: a player command never changes a faction-2 unit (its action and    *)
(* target in particular), whatever selections and control groups came      *)
(* before: the ids the selection and the control group name are never ids  *)
(* of faction-2 units.                                                     *)
C13_OpponentUntouched ==
    /\ \A i \in DOMAIN units : units[i].id \in NamedIds => units[i].owner = 1
    /\ lastOp.op \in PlayerCommands =>
          /\ DOMAIN units = DOMAIN lastOp.units
          /\ \A i \in DOMAIN units :
                lastOp.units[i].owner = 2 =>
                    /\ units[i].action = lastOp.units[i].action
                    /\ units[i].target = lastOp.units[i].target
                    /\ units[i] = lastOp.units[i]

\* an order given to a selection recalled from the control group, after the
\* player has clicked among the opponent's units; the order took effect
C13_Witness ==
    /\ lastOp.op = "rightClick"
    /\ group1.def /\ selected = group1.ids /\ selected # <<>>
    /\ cycle > 0
    /\ units # lastOp.units
    /\ \E i \in DOMAIN units : units[i].owner = 2 /\ units[i].action = "attack"

-----------------------------------------------------------------------------
(* C14: a rejected command has no effect.  produceUnit with gold below the *)
(* cost of the type, and a unit command whose selection names only ids     *)
(* that have left the registry, leave the registry, the production queue   *)
(* and the gold as they were; a unit command never touches a unit whose id *)
(* it does not name, nor the queue, nor the gold.                          *)
C14_RejectedNoEffect ==
    /\ (lastOp.op = "produceUnit" /\ lastOp.gold < UNIT_TYPES[lastOp.arg[1]].cost) =>
          /\ units = lastOp.units
          /\ prodQueue = lastOp.prodQueue
          /\ gold = lastOp.gold
    /\ lastOp.op \in UnitCommands =>
          /\ prodQueue = lastOp.prodQueue
          /\ gold = lastOp.gold
          /\ DOMAIN units = DOMAIN lastOp.units
          /\ \A i \in DOMAIN units : units[i].id \notin SelIds => units[i] = lastOp.units[i]
          /\ SelIds \cap Ids(lastOp.units) = {} => units = lastOp.units

\* an order for a selection whose only unit has been killed, given when a
\* production request has already left too little gold for another one
C14_Witness ==
    /\ lastOp.op \in UnitCommands
    /\ selected # <<>>
    /\ SelIds \cap Ids(lastOp.units) = {}
    /\ units = lastOp.units
    /\ gold < UNIT_TYPES["heavy"].cost

-----------------------------------------------------------------------------
(* C18: every unit's carried count is within 0..4 in every state, also     *)
(* when harvest is ordered again for a worker that already carries.        *)
C18_CarriedInRange ==
    \A i \in DOMAIN units : units[i].carrying >= 0 /\ units[i].carrying <= 4

\* a worker that carries 4 completes one more harvest and still carries 4
C18_Witness ==
    /\ AfterTick
    /\ \E id \in Survivors :
          /\ UnitOf(lastOp.units, id).action = "harvest"
          /\ UnitOf(lastOp.units, id).carrying = 4
          /\ UnitOf(lastOp.units, id).progress = 9
          /\ UnitOf(units, id).carrying = 4
          /\ UnitOf(units, id).progress = 0

-----------------------------------------------------------------------------
\* C12: within every tick the components run in the order Action Resolver,
\* Production Queue, Opponent Policy, Visibility Tracker, Reward Accumulator,
\* each to completion before the next: the registry a tick leaves is the one
\* that processActions, then processProduction, then processAI produce from
\* the state the tick started in, with the draws the tick made.
C12_ProductionBeforePolicy ==
    AfterTick =>
        \A pa \in {processActions(lastOp.units, lastOp.gold, lastOp.rewards)} :
        \A pp \in {processProduction(pa.units, lastOp.prodQueue, lastOp.nextUnitId,
                                     pa.rewards)} :
            units = processAI(pp.units, cycle, lastOp.arg)

\* a base of owner o is in the registry
OwnBase(us, o) == \E b \in DOMAIN us : us[b].type = "base" /\ us[b].owner = o

\* C20: a worker that entered return while no base of its owner existed (its
\* target is still the Resource cell of its harvest order) does not move and
\* keeps its load, so deposits nothing, in every tick that starts with no
\* base of its owner.
C20_NoBaseNoMovement ==
    AfterTick =>
        \A i \in DOMAIN lastOp.units :
            LET u == lastOp.units[i]
            IN  (/\ u.action = "return"
                 /\ u.target.kind = "cell"
                 /\ grid(u.target.x, u.target.y) = 2
                 /\ ~OwnBase(lastOp.units, u.owner))
                => \A j \in DOMAIN units :
                       units[j].id = u.id =>
                           /\ units[j].gx = u.gx
                           /\ units[j].gy = u.gy
                           /\ units[j].carrying = u.carrying

-----------------------------------------------------------------------------
(* C21: a returning worker deposits exactly in a tick that it starts at    *)
(* Manhattan distance <= 1 from its target: the gold grows in a tick by 25 *)
(* times the loads of the workers that start it there and by nothing else, *)
(* such a worker carries 0 and is idle with no target afterwards, and a    *)
(* returning worker farther away keeps its load and its return action.     *)
C21_DepositAtTarget ==
    AfterTick =>
        LET due == {i \in DOMAIN lastOp.units : Deposits(lastOp.units[i])}
            loads == {p \in due \X (1 .. 4) : p[2] <= lastOp.units[p[1]].carrying}
        IN  /\ gold = lastOp.gold + 25 * Cardinality(loads)
            /\ \A id \in Survivors :
                  LET pre == UnitOf(lastOp.units, id)
                      post == UnitOf(units, id)
                  IN  /\ Deposits(pre) =>
                            /\ post.carrying = 0
                            /\ post.action = "noop"
                            /\ post.target = NoTarget
                      /\ (pre.action = "return" /\ ~Deposits(pre)) =>
                            /\ post.carrying = pre.carrying
                            /\ post.action = "return"

\* a worker sent to (5, 1) harvests there from cycle 20, turns to return on
\* tick 40, walks three cells and deposits its two loads on tick 44
C21_Witness ==
    /\ AfterTick /\ cycle = 44
    /\ \E id \in Survivors :
          LET pre == UnitOf(lastOp.units, id)
              post == UnitOf(units, id)
          IN  /\ Deposits(pre) /\ pre.carrying = 2
              /\ pre.target = CellTarget(1, 1)
              /\ post.carrying = 0 /\ post.action = "noop"
    /\ gold = lastOp.gold + 50

-----------------------------------------------------------------------------
(* Observations of the move, return and attack steps of the last tick.     *)

\* some unit of us other than the one with this id stands within one cell of
\* (x, y) on each axis, from where one step can take it onto (x, y)
Crowded(us, id, x, y) ==
    \E k \in DOMAIN us :
        us[k].id # id /\ Abs(us[k].gx - x) <= 1 /\ Abs(us[k].gy - y) <= 1

\* the opponent policy may give the unit a new order in the tick just taken
Redirected(u) == u.owner = 2 /\ cycle % 5 = 0

-----------------------------------------------------------------------------
(* C22: in a tick a moving unit that is not at its target either stays or  *)
(* steps exactly one cell, along x by sign(dx) when |dx| > |dy| and along  *)
(* y by sign(dy) otherwise, which brings it exactly 1 closer to its target *)
(* in Manhattan distance; it steps whenever the cell is free terrain with  *)
(* no other unit around it; it is idle with no target after the tick in    *)
(* which it stands on its target and keeps its move order otherwise.  So   *)
(* an unobstructed move over distance d >= 1 ends idle after d ticks.      *)
C22_MoveOneCell ==
    AfterTick => \A id \in Survivors :
        LET pre == UnitOf(lastOp.units, id)
            post == UnitOf(units, id)
            dx == pre.target.x - pre.gx
            dy == pre.target.y - pre.gy
            nx == pre.gx + (IF Abs(dx) > Abs(dy) THEN Sign(dx) ELSE 0)
            ny == pre.gy + (IF Abs(dx) > Abs(dy) THEN 0 ELSE Sign(dy))
            stays == post.gx = pre.gx /\ post.gy = pre.gy
            arrived == post.gx = pre.target.x /\ post.gy = pre.target.y
        IN  (pre.action = "move" /\ pre.target.kind = "cell") =>
               /\ IF dx = 0 /\ dy = 0 THEN stays
                  ELSE /\ Abs(nx - pre.gx) + Abs(ny - pre.gy) = 1
                       /\ stays \/ (post.gx = nx /\ post.gy = ny)
                       /\ ~stays =>
                             Abs(pre.target.x - post.gx) + Abs(pre.target.y - post.gy)
                                = Abs(dx) + Abs(dy) - 1
                       /\ (/\ InGrid(nx, ny) /\ grid(nx, ny) # 1
                           /\ ~Crowded(lastOp.units, id, nx, ny)) => ~stays
               /\ IF arrived
                  THEN Redirected(post) \/ (post.action = "noop" /\ post.target = NoTarget)
                  ELSE post.action = "move" /\ post.target = pre.target

\* the worker sent from (1, 2) to (13, 9), Manhattan distance 19, takes its
\* last step on tick 19 and is idle on its target
C22_Witness ==
    /\ AfterTick /\ cycle = 19
    /\ \E id \in Survivors :
          LET pre == UnitOf(lastOp.units, id)
              post == UnitOf(units, id)
          IN  /\ pre.action = "move" /\ pre.target = CellTarget(13, 9)
              /\ Abs(13 - pre.gx) + Abs(9 - pre.gy) = 1
              /\ post.gx = 13 /\ post.gy = 9
              /\ post.action = "noop" /\ post.target = NoTarget

-----------------------------------------------------------------------------
(* C23: a unit whose move step, or whose return step (taken at Manhattan   *)
(* distance > 1 from the target), leads out of the grid, onto a wall or    *)
(* onto a cell on which another unit stands throughout the tick, has the   *)
(* same position, action and target after the tick as before it.           *)
C23_BlockedKeepsOrder ==
    AfterTick => \A id \in Survivors :
        LET pre == UnitOf(lastOp.units, id)
            post == UnitOf(units, id)
            dx == pre.target.x - pre.gx
            dy == pre.target.y - pre.gy
            nx == pre.gx + (IF Abs(dx) > Abs(dy) THEN Sign(dx) ELSE 0)
            ny == pre.gy + (IF Abs(dx) > Abs(dy) THEN 0 ELSE Sign(dy))
            stepping == /\ pre.target.kind = "cell"
                        /\ \/ pre.action = "move" /\ Abs(dx) + Abs(dy) > 0
                           \/ pre.action = "return" /\ Abs(dx) + Abs(dy) > 1
            held == \E b \in Survivors \ {id} :
                        /\ UnitOf(lastOp.units, b).gx = nx /\ UnitOf(lastOp.units, b).gy = ny
                        /\ UnitOf(units, b).gx = nx /\ UnitOf(units, b).gy = ny
        IN  (stepping /\ (~InGrid(nx, ny) \/ grid(nx, ny) = 1 \/ held)) =>
               /\ post.gx = pre.gx /\ post.gy = pre.gy
               /\ post.action = pre.action
               /\ post.target = pre.target

\* a tick in which one moving unit faces a wall and stays, still moving
C23_Witness ==
    /\ AfterTick
    /\ \E id \in Survivors :
          LET pre == UnitOf(lastOp.units, id)
              post == UnitOf(units, id)
              dx == pre.target.x - pre.gx
              dy == pre.target.y - pre.gy
              nx == pre.gx + (IF Abs(dx) > Abs(dy) THEN Sign(dx) ELSE 0)
              ny == pre.gy + (IF Abs(dx) > Abs(dy) THEN 0 ELSE Sign(dy))
          IN  /\ pre.action = "move" /\ pre.target.kind = "cell"
              /\ grid(nx, ny) = 1
              /\ post.action = "move" /\ post.gx = pre.gx /\ post.gy = pre.gy

-----------------------------------------------------------------------------
(* C24: an attacker that starts a tick with a target id that is not in the *)
(* registry is idle with no target after it (unless the opponent policy    *)
(* gives it a new order in that tick) and has not moved, and a tick lands  *)
(* no more hits than it has attackers whose target is in the registry.     *)
(* Ids are never reused: the ids in the registry are distinct and below    *)
(* the id counter, as is every attack target; the counter never goes down  *)
(* and a unit added by a handler gets an id the counter had not passed.    *)
(* So an attacker that still attacks after a tick has the target it had.   *)
C24_AttackNeverRedirected ==
    /\ \A i, j \in DOMAIN units : units[i].id = units[j].id => i = j
    /\ \A i \in DOMAIN units :
          /\ units[i].id >= 1 /\ units[i].id < nextUnitId
          /\ units[i].action = "attack" =>
                units[i].target.id >= 1 /\ units[i].target.id < nextUnitId
    /\ nextUnitId >= lastOp.nextUnitId
    /\ \A id \in Ids(units) \ Ids(lastOp.units) : id >= lastOp.nextUnitId
    /\ AfterTick =>
          /\ \A id \in Survivors :
                LET pre == UnitOf(lastOp.units, id)
                    post == UnitOf(units, id)
                IN  (pre.action = "attack" /\ pre.target.kind = "unit") =>
                       /\ post.action = "attack" =>
                             post.target = pre.target \/ Redirected(post)
                       /\ pre.target.id \notin Ids(lastOp.units) =>
                             /\ post.gx = pre.gx /\ post.gy = pre.gy
                             /\ \/ post.action = "noop" /\ post.target = NoTarget
                                \/ Redirected(post) /\ post.target # pre.target
          /\ rewards.attack - lastOp.rewards.attack <=
                Cardinality({i \in DOMAIN lastOp.units :
                                /\ lastOp.units[i].action = "attack"
                                /\ lastOp.units[i].target.id \in Ids(lastOp.units)})

\* after units have been added past the initial six, an attacker whose
\* target another unit had killed turns idle where it stands
C24_Witness ==
    /\ AfterTick
    /\ nextUnitId > 7
    /\ \E id \in Survivors :
          LET pre == UnitOf(lastOp.units, id)
              post == UnitOf(units, id)
          IN  /\ pre.action = "attack"
              /\ pre.target.id \notin Ids(lastOp.units)
              /\ post.action = "noop" /\ post.target = NoTarget
              /\ post.gx = pre.gx /\ post.gy = pre.gy

-----------------------------------------------------------------------------
(* C25: an attacker whose target is in the registry throughout the tick,   *)
(* stands still in it and is farther away than the attacker's range (3 for *)
(* a ranged unit, 1 for the others) in Manhattan distance keeps its attack *)
(* order and its target.  It stays or stands on the cell one step towards  *)
(* the target on both axes: it stays when that cell is out of the grid, a  *)
(* wall or held by a unit throughout the tick, and it steps when the cell  *)
(* is free terrain that no other unit stands on before or after the tick   *)
(* and no unit removed in the tick stood next to.  If it is the only       *)
(* attacker of its target, the target's hit points are unchanged.          *)
C25_ChaseOutOfRange ==
    AfterTick => \A id \in Survivors :
        LET pre == UnitOf(lastOp.units, id)
            post == UnitOf(units, id)
        IN  (/\ pre.action = "attack" /\ pre.target.kind = "unit"
             /\ pre.target.id \in Survivors
             /\ UnitOf(units, pre.target.id).gx = UnitOf(lastOp.units, pre.target.id).gx
             /\ UnitOf(units, pre.target.id).gy = UnitOf(lastOp.units, pre.target.id).gy) =>
            LET t == UnitOf(lastOp.units, pre.target.id)
                ddx == t.gx - pre.gx
                ddy == t.gy - pre.gy
                nx == pre.gx + (IF ddx > 0 THEN 1 ELSE IF ddx < 0 THEN -1 ELSE 0)
                ny == pre.gy + (IF ddy > 0 THEN 1 ELSE IF ddy < 0 THEN -1 ELSE 0)
                stays == post.gx = pre.gx /\ post.gy = pre.gy
                held == \E b \in Survivors \ {id} :
                          /\ UnitOf(lastOp.units, b).gx = nx /\ UnitOf(lastOp.units, b).gy = ny
                          /\ UnitOf(units, b).gx = nx /\ UnitOf(units, b).gy = ny
                clear == /\ InGrid(nx, ny) /\ grid(nx, ny) # 1
                         /\ ~Occupied(lastOp.units, nx, ny)
                         /\ \A k \in DOMAIN units :
                               (units[k].gx = nx /\ units[k].gy = ny) => units[k].id = id
                         /\ \A k \in DOMAIN lastOp.units :
                               (/\ Abs(lastOp.units[k].gx - nx) <= 1
                                /\ Abs(lastOp.units[k].gy - ny) <= 1)
                               => lastOp.units[k].id \in Ids(units)
            IN  Abs(ddx) + Abs(ddy) > (IF pre.type = "ranged" THEN 3 ELSE 1) =>
                   /\ post.action = "attack" /\ post.target = pre.target
                   /\ stays \/ (post.gx = nx /\ post.gy = ny)
                   /\ (~InGrid(nx, ny) \/ grid(nx, ny) = 1 \/ held) => stays
                   /\ clear => ~stays
                   /\ (\A k \in DOMAIN lastOp.units :
                          (/\ lastOp.units[k].action = "attack"
                           /\ lastOp.units[k].target = pre.target) => lastOp.units[k].id = id)
                      => UnitOf(units, pre.target.id).hp = t.hp

\* two attackers of one standing target, both out of range: one takes the
\* diagonal step, the other stays behind a unit that holds its cell
C25_Witness ==
    /\ AfterTick
    /\ \E a, b \in Survivors :
          LET prea == UnitOf(lastOp.units, a)
              preb == UnitOf(lastOp.units, b)
          IN  /\ a # b
              /\ prea.action = "attack" /\ preb.action = "attack"
              /\ prea.target = preb.target
              /\ prea.target.id \in Survivors
              /\ UnitOf(units, prea.target.id).hp = UnitOf(lastOp.units, prea.target.id).hp
              /\ UnitOf(units, prea.target.id).gx = UnitOf(lastOp.units, prea.target.id).gx
              /\ UnitOf(units, prea.target.id).gy = UnitOf(lastOp.units, prea.target.id).gy
              /\ UnitOf(units, a).gx # prea.gx /\ UnitOf(units, a).gy # prea.gy
              /\ UnitOf(units, b).gx = preb.gx /\ UnitOf(units, b).gy = preb.gy
              /\ UnitOf(units, a).action = "attack" /\ UnitOf(units, b).action = "attack"

-----------------------------------------------------------------------------
(* C26: after every tick and every toggle-fog command that leaves fog      *)
(* enabled, a cell is Visible exactly when some faction-1 unit of the      *)
(* registry stands within squared distance 16 of it, and every cell that   *)
(* was Visible before and is not within that distance of one is Explored.  *)
C26_VisibleIffInSight ==
    (FogRecomputed /\ fogEnabled) =>
        \A c \in Cells :
            /\ FogAt(fogGrid, c) = 2 <=> InSight(c)
            /\ (FogAt(lastOp.fogGrid, c) = 2 /\ ~InSight(c)) => FogAt(fogGrid, c) = 1

\* a tick with fog enabled in which a moving faction-1 unit leaves cells
\* behind and sees new ones, while a faction-2 unit stands on a Hidden cell
C26_Witness ==
    /\ AfterTick /\ fogEnabled /\ lastOp.fogEnabled
    /\ \E c \in Cells : FogAt(lastOp.fogGrid, c) = 2 /\ FogAt(fogGrid, c) = 1
    /\ \E c \in Cells : FogAt(lastOp.fogGrid, c) # 2 /\ FogAt(fogGrid, c) = 2
    /\ \E i \in DOMAIN units :
          units[i].owner = 2 /\ FogAt(fogGrid, <<units[i].gx, units[i].gy>>) = 0

-----------------------------------------------------------------------------
(* C27: after every tick and every toggle-fog command that leaves fog      *)
(* disabled, every cell is Visible.                                        *)
C27_DisabledAllVisible ==
    (FogRecomputed /\ ~fogEnabled) => \A c \in Cells : FogAt(fogGrid, c) = 2

\* a tick that runs with fog disabled, with cells far from every faction-1 unit
C27_Witness ==
    /\ AfterTick /\ ~fogEnabled /\ ~lastOp.fogEnabled
    /\ \E c \in Cells : ~InSight(c) /\ FogAt(fogGrid, c) = 2
    /\ \E id \in Survivors :
          /\ UnitOf(units, id).owner = 1
          /\ UnitOf(units, id).gx # UnitOf(lastOp.units, id).gx

-----------------------------------------------------------------------------
(* The registry processActions hands to the Opponent Policy in the last    *)
(* tick; lastOp.mid is the registry the policy hands on.                   *)
BeforePolicy == processActions(lastOp.units, lastOp.gold, lastOp.rewards).units

-----------------------------------------------------------------------------
(* C28: in every tick the Opponent Policy returns the registry it was      *)
(* given with nothing but actions and targets changed (same units in the   *)
(* same order, same position, hp and other fields), and it changes the     *)
(* action or target of a unit only when the cycle is a multiple of 5 and   *)
(* the unit is of faction 2, idle and not a building.                      *)
C28_PolicyFrame ==
    AfterTick => \A pa \in {BeforePolicy} :
        /\ DOMAIN lastOp.mid = DOMAIN pa
        /\ \A i \in DOMAIN pa :
              /\ [lastOp.mid[i] EXCEPT !.action = pa[i].action, !.target = pa[i].target] = pa[i]
              /\ (\/ cycle % 5 # 0
                  \/ pa[i].owner # 2
                  \/ pa[i].action # "noop"
                  \/ pa[i].type \in {"base", "barracks"}) => lastOp.mid[i] = pa[i]

\* a decision tick in which the policy sends one idle faction-2 worker on
\* patrol and leaves an idle faction-1 unit and a faction-2 building alone
C28_Witness ==
    /\ AfterTick /\ cycle % 5 = 0
    /\ \E i, j, k \in DOMAIN lastOp.mid :
          /\ lastOp.mid[i].owner = 2 /\ lastOp.mid[i].action = "move"
          /\ i \in DOMAIN lastOp.units /\ lastOp.units[i].id = lastOp.mid[i].id
          /\ lastOp.units[i].action = "noop"
          /\ lastOp.mid[j].owner = 1 /\ lastOp.mid[j].action = "noop"
          /\ lastOp.mid[j].type = "worker"
          /\ lastOp.mid[k].owner = 2 /\ lastOp.mid[k].type = "base"
          /\ lastOp.mid[k].action = "noop"

-----------------------------------------------------------------------------
(* C29: on a tick whose cycle is a multiple of 5, every idle faction-2     *)
(* unit that is not a building and has a faction-1 unit within Manhattan   *)
(* distance 8 leaves the policy with the order to attack a faction-1 unit  *)
(* at minimum Manhattan distance from it; one with no faction-1 unit       *)
(* within 8 leaves it unchanged or with a move to a cell of the grid at    *)
(* most 2 away from its position on each axis.                             *)
C29_PolicyDecision ==
    (AfterTick /\ cycle % 5 = 0) => \A pa \in {BeforePolicy} :
        \A i \in DOMAIN pa :
            (pa[i].owner = 2 /\ pa[i].action = "noop" /\ pa[i].type \notin {"base", "barracks"}) =>
            LET u == pa[i]
                m == lastOp.mid[i]
                foes == {k \in DOMAIN pa : pa[k].owner = 1}
                far(k) == Abs(pa[k].gx - u.gx) + Abs(pa[k].gy - u.gy)
            IN  IF \E k \in foes : far(k) <= 8
                THEN /\ m.action = "attack"
                     /\ \E k \in foes : /\ m.target = UnitTarget(pa[k].id)
                                        /\ \A j \in foes : far(k) <= far(j)
                ELSE \/ m = u
                     \/ /\ m.action = "move" /\ m.target.kind = "cell"
                        /\ Abs(m.target.x - u.gx) <= 2 /\ Abs(m.target.y - u.gy) <= 2
                        /\ m.target.x >= 0 /\ m.target.x < 16
                        /\ m.target.y >= 0 /\ m.target.y < 16

\* a decision tick in which an idle faction-2 worker is set on a faction-1
\* worker that is nearer to it than the faction-1 base
C29_Witness ==
    /\ AfterTick /\ cycle % 5 = 0
    /\ \E i \in DOMAIN lastOp.mid : \E k, b \in DOMAIN lastOp.mid :
          /\ lastOp.mid[i].owner = 2 /\ lastOp.mid[i].action = "attack"
          /\ i \in DOMAIN lastOp.units /\ lastOp.units[i].id = lastOp.mid[i].id
          /\ lastOp.units[i].action # "attack"
          /\ lastOp.mid[k].owner = 1 /\ lastOp.mid[k].type = "worker"
          /\ lastOp.mid[i].target = UnitTarget(lastOp.mid[k].id)
          /\ lastOp.mid[b].owner = 1 /\ lastOp.mid[b].type = "base"
          /\ Manhattan(lastOp.mid[k], lastOp.mid[i]) < Manhattan(lastOp.mid[b], lastOp.mid[i])

-----------------------------------------------------------------------------
(* C30: the stop command and a right click that gives a move or an attack  *)
(* order replace the action and the target of the selected units and       *)
(* change nothing else: every unit keeps its place in the registry and all *)
(* its other fields (position, hp, carried count, harvest progress), the   *)
(* units that are not selected are unchanged, and so are gold, the         *)
(* production queue, the rewards, the id counter, the fog and the cycle.   *)
C30_ReassignOnly ==
    (lastOp.op \in {"stop", "rightClick"}) =>
        /\ DOMAIN units = DOMAIN lastOp.units
        /\ gold = lastOp.gold /\ prodQueue = lastOp.prodQueue
        /\ rewards = lastOp.rewards /\ nextUnitId = lastOp.nextUnitId
        /\ fogGrid = lastOp.fogGrid /\ fogEnabled = lastOp.fogEnabled
        /\ \A i \in DOMAIN units :
              LET pre == lastOp.units[i]
                  post == units[i]
              IN  /\ (post.action # "harvest" \/ post = pre) =>
                        [post EXCEPT !.action = pre.action, !.target = pre.target] = pre
                  /\ post.id \notin SelIds => post = pre
                  /\ (lastOp.op = "stop" /\ post.id \in SelIds) =>
                        post.action = "noop" /\ post.target = NoTarget
                  /\ (lastOp.op = "rightClick" /\ post.id \in SelIds /\ post # pre) =>
                        \/ post.action = "move" /\ post.target = CellTarget(lastOp.arg[1], lastOp.arg[2])
                        \/ post.action = "attack" /\ post.target.kind = "unit"
                        \/ post.action = "harvest"

\* a worker on its way back with a load is stopped, sent elsewhere or set on
\* the opponent's base: it keeps its load
C30_Witness ==
    /\ lastOp.op \in {"stop", "rightClick"}
    /\ \E i \in DOMAIN units :
          /\ lastOp.units[i].action = "return" /\ lastOp.units[i].carrying > 0
          /\ units[i].action \in {"noop", "move", "attack"}
          /\ units[i].carrying = lastOp.units[i].carrying

-----------------------------------------------------------------------------
(* The steps of the Action Resolver pass that a unit takes after an        *)
(* earlier step of the same pass has removed it from the registry, and     *)
(* that lower a unit's hit points, remove a unit or add to a reward: the   *)
(* loop runs over the array it started with, filter builds a new one.      *)
RECURSIVE PostMortem(_, _)
PostMortem(st, i) ==
    IF i > Len(st.objs) THEN {}
    ELSE LET nxt == stepUnit(st, i)
             acts == /\ st.objs[i].id \notin st.alive
                     /\ \/ nxt.rewards # st.rewards
                        \/ nxt.alive # st.alive
                        \/ \E k \in DOMAIN st.objs : nxt.objs[k].hp # st.objs[k].hp
         IN  (IF acts THEN {i} ELSE {}) \cup PostMortem(nxt, i + 1)

-----------------------------------------------------------------------------
(* C31: a unit removed during the Action Resolver pass of a tick takes no  *)
(* effect later in that pass: after its removal it lowers no unit's hit    *)
(* points, removes no unit and adds to no reward.                          *)
C31_DeadDoNotAct ==
    AfterTick =>
        PostMortem([objs |-> lastOp.units, alive |-> Ids(lastOp.units),
                    gold |-> lastOp.gold, rewards |-> lastOp.rewards], 1) = {}

-----------------------------------------------------------------------------
(* C32: a building (base or barracks) never changes its grid position:     *)
(* in every step, every building that is in the registry before and after  *)
(* it stands on the same cell, whatever orders it has been given.          *)
C32_BuildingsStay ==
    \A i \in DOMAIN lastOp.units : \A k \in DOMAIN units :
        (/\ lastOp.units[i].id = units[k].id
         /\ units[k].type \in {"base", "barracks"}) =>
            units[k].gx = lastOp.units[i].gx /\ units[k].gy = lastOp.units[i].gy

-----------------------------------------------------------------------------
(* C33: in every state the target of every attack order, if it is in the   *)
(* registry, is a unit of the other faction; and every unit that lost hit  *)
(* points or was removed in a tick was, when the tick began, the target of *)
(* an attack order of a unit of the other faction.                         *)
C33_NoFriendlyFire ==
    /\ \A i, k \in DOMAIN units :
          (/\ units[i].action = "attack" /\ units[i].target.kind = "unit"
           /\ units[k].id = units[i].target.id) => units[k].owner # units[i].owner
    /\ AfterTick => \A i \in DOMAIN lastOp.units :
          LET v == lastOp.units[i]
          IN  (v.id \notin Ids(units) \/ UnitOf(units, v.id).hp # v.hp) =>
                  \E a \in DOMAIN lastOp.units :
                      /\ lastOp.units[a].action = "attack"
                      /\ lastOp.units[a].target = UnitTarget(v.id)
                      /\ lastOp.units[a].owner # v.owner

\* a tick of a fight in which a unit of each faction loses hit points
C33_Witness ==
    /\ AfterTick
    /\ \E p, q \in Survivors :
          /\ UnitOf(units, p).owner = 1 /\ UnitOf(units, q).owner = 2
          /\ UnitOf(units, p).hp # UnitOf(lastOp.units, p).hp
          /\ UnitOf(units, q).hp # UnitOf(lastOp.units, q).hp

-----------------------------------------------------------------------------
(* C34: in every state every unit of the registry stands on a cell of the  *)
(* 16 x 16 grid that is not a Wall (the walls are the cells with x in      *)
(* {7, 8} and 6 <= y <= 9).                                                *)
C34_OnOpenGround ==
    \A i \in DOMAIN units :
        /\ units[i].gx >= 0 /\ units[i].gx <= 15
        /\ units[i].gy >= 0 /\ units[i].gy <= 15
        /\ ~(units[i].gx \in {7, 8} /\ units[i].gy >= 6 /\ units[i].gy <= 9)

\* a unit stands beside the wall block with an order that leads across it,
\* and a tick leaves it there
C34_Witness ==
    /\ AfterTick
    /\ \E i \in DOMAIN units : \E k \in DOMAIN lastOp.units :
          /\ lastOp.units[k].id = units[i].id
          /\ units[i].action = "move" /\ units[i].target.kind = "cell"
          /\ units[i].gx = 6 /\ units[i].gy >= 6 /\ units[i].gy <= 9
          /\ units[i].target.x > 8
          /\ lastOp.units[k].gx = units[i].gx /\ lastOp.units[k].gy = units[i].gy

-----------------------------------------------------------------------------
(* C35: in every state the gold pool is at least 0.                        *)
C35_GoldNeverNegative == gold >= 0

\* a production request made with an empty pool, after the pool was spent
\* to the last coin, leaves it at 0
C35_Witness ==
    /\ lastOp.op = "produceUnit"
    /\ lastOp.gold = 0 /\ gold = 0
    /\ lastOp.prodQueue = prodQueue /\ Len(prodQueue) > 0

====
